---- MODULE Spec2Model ----
(***************************************************************************)
(* Model of apps/web/ui/partners/program-application-sheet.tsx: the        *)
(* partner program application sheet.  One mounted instance of             *)
(* ProgramApplicationSheetContent is modelled, from the moment the sheet   *)
(* is opened: the react-hook-form state it reads (values, errors,          *)
(* isSubmitting, isSubmitSuccessful), the props and the partner profile    *)
(* it is rendered with, the calls of createProgramApplicationAction that   *)
(* are under way, and the side effects of the useAction callbacks.         *)
(*                                                                         *)
(* Scheduling.  Everything a submit does before executeAsync's promise is  *)
(* awaited runs in one task (the form event and the microtasks after it),  *)
(* so a submit is one step.  When the action's promise settles, the rest   *)
(* of onSubmit and of handleSubmit runs in the microtasks that follow,     *)
(* and the useAction callback runs when the hook's status changes; which   *)
(* of the two is first is left to the libraries, so that the completion    *)
(* step takes either order.                                                *)
(***************************************************************************)
EXTENDS Naturals, Sequences, FiniteSets

VARIABLES
    program,            \* prop `program?: ProgramProps`
    partner,            \* usePartnerProfile().partner
    hasOnSuccess,       \* whether the optional prop onSuccess was given
    isOpen,             \* the useState flag of useProgramApplicationSheet
    values,             \* the form's field values (FormData)
    errors,             \* formState.errors
    isSubmitting,       \* formState.isSubmitting
    isSubmitSuccessful, \* formState.isSubmitSuccessful
    isSubmitted,        \* formState.isSubmitted
    calls,              \* the calls of the action made so far, in order, each
                        \* with its payload while under way and its result after
    effects,            \* the side effects of the useAction callbacks, in order
    lastAttempt         \* what the last click on the submit button did

vars == <<program, partner, hasOnSuccess, isOpen, values, errors, isSubmitting,
          isSubmitSuccessful, isSubmitted, calls, effects, lastAttempt>>

\* The largest number of calls of the action in one behaviour.
MaxCalls == 2

\* JavaScript's undefined and null, as values of string-valued fields.
Undefined == "undefined"
Null == "null"

FallbackMessage == "Failed to submit application"
ServerMessage == "You have already applied to this program"
SuccessMessage == "Application submitted!"

----------------------------------------------------------------------------
(* The values the component is rendered with. *)

NoProgram == [defined |-> FALSE, id |-> Undefined, slug |-> Undefined, termsUrl |-> Undefined]

Programs ==
    { [defined |-> TRUE, id |-> "prog_1", slug |-> "acme", termsUrl |-> "https://x/terms"],
      [defined |-> TRUE, id |-> "prog_2", slug |-> "beta", termsUrl |-> Undefined] }

NoPartner == [defined |-> FALSE, email |-> Undefined, name |-> Undefined, website |-> Undefined]

Partners ==
    { [defined |-> TRUE, email |-> Null, name |-> "A", website |-> Null],
      [defined |-> TRUE, email |-> "a@b.com", name |-> "A", website |-> Null],
      [defined |-> TRUE, email |-> "a@b.com", name |-> "A", website |-> "https://a.dev"] }

Proposals == {"", "I will blog"}
Comments == {"", "See my site"}

\* JavaScript truthiness of a string-valued field.
Truthy(v) == v \notin {Undefined, Null, ""}

\* useForm({ defaultValues: { termsAgreement: false } }); the two textareas
\* are registered with their empty DOM value.
DefaultValues == [proposal |-> "", comments |-> "", termsAgreement |-> FALSE]

NoErrors ==
    [proposal |-> FALSE, comments |-> FALSE, termsAgreement |-> FALSE, root |-> Undefined]

IsEmptyObject(errs) ==
    ~errs.proposal /\ ~errs.comments /\ ~errs.termsAgreement /\ errs.root = Undefined

----------------------------------------------------------------------------
(* Rendering. *)

\* `if (!program) return null;`: the form is there only with a program, and
\* the sheet shows it only while it is open.
FormRendered == program.defined /\ isOpen

\* `{program.termsUrl && (<input type="checkbox" ... />)}`
TermsRendered == FormRendered /\ Truthy(program.termsUrl)

\* A slip: the button loads only once a submit has succeeded.
ButtonLoadingOnlyAfterSuccess == isSubmitSuccessful

\* loading={isSubmitting || isSubmitSuccessful}
ButtonLoading == isSubmitting \/ isSubmitSuccessful

\* The Button of @dub/ui does not react to clicks while it is loading.
ButtonDisabled == ButtonLoading

----------------------------------------------------------------------------
(* Validation: the rules given to register(). *)

\* A slip: the proposal is registered without `required`.
ProposalNotRequired(v) == FALSE

\* register("proposal", { required: true })
ProposalInvalid(v) == v.proposal = ""

\* A slip: the terms rule applies whether or not the checkbox is rendered.
TermsAlwaysRequired(prog, v) == ~(v.termsAgreement = TRUE)

\* register("termsAgreement", { required: true, validate: (v) => v === true }),
\* a rule of the form only while the checkbox is rendered.
TermsInvalid(prog, v) == Truthy(prog.termsUrl) /\ ~(v.termsAgreement = TRUE)

\* register("comments"): no rule.
CommentsInvalid(v) == FALSE

\* What handleSubmit's validation leaves in formState.errors: the root error
\* is dropped and every registered field is validated anew.
Validate(prog, v) ==
    [proposal |-> ProposalInvalid(v),
     comments |-> CommentsInvalid(v),
     termsAgreement |-> TermsInvalid(prog, v),
     root |-> Undefined]

----------------------------------------------------------------------------
(* onSubmit. *)

\* A slip: the guard tests the partner and not its email.
SubmitBlockedWithoutEmailTest(prog, part) == ~prog.defined \/ ~part.defined

\* `if (!program || !partner?.email) return;`
SubmitBlocked(prog, part) == ~prog.defined \/ ~(part.defined /\ Truthy(part.email))

\* A slip: the website is passed on as it is, null included.
NullishKept(v) == v

\* `partner.website ?? undefined`
NullishToUndefined(v) == IF v \in {Null, Undefined} THEN Undefined ELSE v

\* The argument of executeAsync: the form data spread first, then the
\* partner's identity and the program's id.
Payload(prog, part, v) ==
    [proposal |-> v.proposal,
     comments |-> v.comments,
     termsAgreement |-> v.termsAgreement,
     email |-> part.email,
     name |-> part.name,
     website |-> NullishToUndefined(part.website),
     programId |-> prog.id]

\* The payload of a call that is over.
NoPayload ==
    [proposal |-> Undefined, comments |-> Undefined, termsAgreement |-> FALSE,
     email |-> Undefined, name |-> Undefined, website |-> Undefined,
     programId |-> Undefined]

InFlight == {i \in DOMAIN calls : calls[i].status = "inflight"}

----------------------------------------------------------------------------
Init ==
    /\ program \in {NoProgram} \cup Programs
    /\ partner \in {NoPartner} \cup Partners
    /\ hasOnSuccess \in BOOLEAN
    /\ isOpen = TRUE
    /\ values = DefaultValues
    /\ errors = NoErrors
    /\ isSubmitting = FALSE
    /\ isSubmitSuccessful = FALSE
    /\ isSubmitted = FALSE
    /\ calls = <<>>
    /\ effects = <<>>
    /\ lastAttempt = "none"

----------------------------------------------------------------------------
(* The props and the partner profile change under the component. *)

\* The parent renders the sheet with a program, or with another one.  A
\* program never goes away again: onSuccess reads `program!.slug`.
ProgramChange(p) ==
    /\ p \in Programs
    /\ p # program
    /\ program' = p
    /\ UNCHANGED <<partner, hasOnSuccess, isOpen, values, errors, isSubmitting,
                   isSubmitSuccessful, isSubmitted, calls, effects, lastAttempt>>

\* usePartnerProfile() delivers the profile, or a newer one.
PartnerChange(p) ==
    /\ p \in Partners
    /\ p # partner
    /\ partner' = p
    /\ UNCHANGED <<program, hasOnSuccess, isOpen, values, errors, isSubmitting,
                   isSubmitSuccessful, isSubmitted, calls, effects, lastAttempt>>

\* <Sheet.Close>, or the sheet's onOpenChange={rest.setIsOpen} with false.
UserClose ==
    /\ isOpen
    /\ isOpen' = FALSE
    /\ UNCHANGED <<program, partner, hasOnSuccess, values, errors, isSubmitting,
                   isSubmitSuccessful, isSubmitted, calls, effects, lastAttempt>>

----------------------------------------------------------------------------
(* The user edits a field.  Once the form has been submitted, the form    *)
(* library validates a field again whenever it changes.                    *)

Revalidated(field, invalid) ==
    IF isSubmitted THEN [errors EXCEPT ![field] = invalid] ELSE errors

SetProposal(v) ==
    /\ FormRendered
    /\ v \in Proposals
    /\ v # values.proposal
    /\ values' = [values EXCEPT !.proposal = v]
    /\ errors' = Revalidated("proposal", ProposalInvalid(values'))
    /\ UNCHANGED <<program, partner, hasOnSuccess, isOpen, isSubmitting,
                   isSubmitSuccessful, isSubmitted, calls, effects, lastAttempt>>

SetComments(v) ==
    /\ FormRendered
    /\ v \in Comments
    /\ v # values.comments
    /\ values' = [values EXCEPT !.comments = v]
    /\ errors' = Revalidated("comments", CommentsInvalid(values'))
    /\ UNCHANGED <<program, partner, hasOnSuccess, isOpen, isSubmitting,
                   isSubmitSuccessful, isSubmitted, calls, effects, lastAttempt>>

ToggleTerms ==
    /\ TermsRendered
    /\ values' = [values EXCEPT !.termsAgreement = ~values.termsAgreement]
    /\ errors' = Revalidated("termsAgreement", TermsInvalid(program, values'))
    /\ UNCHANGED <<program, partner, hasOnSuccess, isOpen, isSubmitting,
                   isSubmitSuccessful, isSubmitted, calls, effects, lastAttempt>>

----------------------------------------------------------------------------
(* <form onSubmit={handleSubmit(onSubmit)}> and the submit button. *)

\* handleSubmit's last state update: isSubmitSuccessful is "no error in
\* formState.errors and onSubmit did not throw".
SubmitSuccessful(errs, onValidError) == IsEmptyObject(errs) /\ ~onValidError

\* A click on the submit button.  A disabled button does nothing.  Otherwise
\* handleSubmit validates; with an error it stops there; without one it runs
\* onSubmit, which returns at once or calls executeAsync and awaits it.
Submit ==
    /\ FormRendered
    /\ Len(calls) < MaxCalls
    /\ UNCHANGED <<program, partner, hasOnSuccess, isOpen, values, effects>>
    /\ IF ButtonDisabled
         THEN /\ lastAttempt' = "disabled"
              /\ UNCHANGED <<errors, isSubmitting, isSubmitSuccessful, isSubmitted, calls>>
         ELSE LET errs == Validate(program, values)
              IN /\ errors' = errs
                 /\ IF ~IsEmptyObject(errs)
                      THEN /\ lastAttempt' = "invalid"
                           /\ isSubmitting' = FALSE
                           /\ isSubmitSuccessful' = SubmitSuccessful(errs, FALSE)
                           /\ isSubmitted' = TRUE
                           /\ calls' = calls
                      ELSE IF SubmitBlocked(program, partner)
                      THEN /\ lastAttempt' = "noop"
                           /\ isSubmitting' = FALSE
                           /\ isSubmitSuccessful' = SubmitSuccessful(errs, FALSE)
                           /\ isSubmitted' = TRUE
                           /\ calls' = calls
                      ELSE /\ lastAttempt' = "called"
                           /\ isSubmitting' = TRUE
                           /\ UNCHANGED <<isSubmitSuccessful, isSubmitted>>
                           /\ calls' = Append(calls,
                                  [status |-> "inflight",
                                   payload |-> Payload(program, partner, values),
                                   serverError |-> Undefined])

----------------------------------------------------------------------------
(* The action's result and the useAction callbacks. *)

\* What a call of the action can come to: data; a serverError; a result with
\* neither (validation errors); or a thrown error, which rejects
\* executeAsync's promise where the other three resolve it.
Results ==
    { [ok |-> TRUE, serverError |-> Undefined, thrown |-> FALSE],
      [ok |-> FALSE, serverError |-> ServerMessage, thrown |-> FALSE],
      [ok |-> FALSE, serverError |-> Undefined, thrown |-> FALSE],
      [ok |-> FALSE, serverError |-> Undefined, thrown |-> TRUE] }

Orders == {"callbackFirst", "continuationFirst"}

\* A slip: the fallback is shown whatever the server said.
ErrorMessageAlwaysFallback(error) == FallbackMessage

\* error.serverError || "Failed to submit application"
ErrorMessage(error) ==
    IF Truthy(error.serverError) THEN error.serverError ELSE FallbackMessage

\* A slip: the notification is shown before the panel is closed and without
\* the cache entry being invalidated.
OnSuccessEffectsWithoutMutate(i) ==
    << [kind |-> "toast.success", call |-> i, arg |-> SuccessMessage],
       [kind |-> "setIsOpen", call |-> i, arg |-> "false"] >>

\* onSuccess: setIsOpen(false); mutate(`/api/partner-profile/programs/${slug}`);
\* toast.success("Application submitted!"); onSuccess?.()
OnSuccessEffects(i) ==
    << [kind |-> "setIsOpen", call |-> i, arg |-> "false"],
       [kind |-> "mutate", call |-> i, arg |-> program.slug],
       [kind |-> "toast.success", call |-> i, arg |-> SuccessMessage] >>
    \o (IF hasOnSuccess
          THEN << [kind |-> "onSuccess", call |-> i, arg |-> Undefined] >>
          ELSE << >>)

\* onError: setError("root.serverError", { message }); toast.error(message)
OnErrorEffects(i, error) ==
    << [kind |-> "setError", call |-> i, arg |-> ErrorMessage(error)],
       [kind |-> "toast.error", call |-> i, arg |-> ErrorMessage(error)] >>

\* formState.errors once the callback of a result has run.
ErrorsAfterCallback(result) ==
    IF result.ok THEN errors ELSE [errors EXCEPT !.root = ErrorMessage(result)]

\* Call i is over: its callback runs, and onSubmit and handleSubmit run to
\* their end, in either order.
Complete(i, result, order) ==
    /\ i \in InFlight
    /\ result \in Results
    /\ order \in Orders
    /\ calls' = [calls EXCEPT ![i] =
                    [status |-> IF result.ok THEN "succeeded" ELSE "failed",
                     payload |-> NoPayload,
                     serverError |-> result.serverError]]
    /\ effects' = effects \o
                    (IF result.ok THEN OnSuccessEffects(i) ELSE OnErrorEffects(i, result))
    /\ isOpen' = IF result.ok THEN FALSE ELSE isOpen
    /\ errors' = ErrorsAfterCallback(result)
    /\ isSubmitting' = FALSE
    /\ isSubmitted' = TRUE
    /\ isSubmitSuccessful' =
          SubmitSuccessful(
              IF order = "callbackFirst" THEN ErrorsAfterCallback(result) ELSE errors,
              result.thrown)
    /\ UNCHANGED <<program, partner, hasOnSuccess, values, lastAttempt>>

----------------------------------------------------------------------------
Next ==
    \/ \E p \in Programs : ProgramChange(p)
    \/ \E p \in Partners : PartnerChange(p)
    \/ UserClose
    \/ \E v \in Proposals : SetProposal(v)
    \/ \E v \in Comments : SetComments(v)
    \/ ToggleTerms
    \/ Submit
    \/ \E i \in DOMAIN calls, r \in Results, o \in Orders : Complete(i, r, o)

Spec == Init /\ [][Next]_vars

TypeOK ==
    /\ program \in {NoProgram} \cup Programs
    /\ partner \in {NoPartner} \cup Partners
    /\ hasOnSuccess \in BOOLEAN
    /\ isOpen \in BOOLEAN
    /\ values \in [proposal : Proposals, comments : Comments, termsAgreement : BOOLEAN]
    /\ isSubmitting \in BOOLEAN
    /\ isSubmitSuccessful \in BOOLEAN
    /\ isSubmitted \in BOOLEAN
    /\ Len(calls) <= MaxCalls
    /\ lastAttempt \in {"none", "disabled", "invalid", "noop", "called"}

----------------------------------------------------------------------------
(* The claims. *)

HasProgramAndEmail ==
    /\ program.defined
    /\ partner.defined
    /\ partner.email \notin {Undefined, Null, ""}

\* The fields pass validation, said from the values and not from Validate.
FieldsPass ==
    /\ values.proposal # ""
    /\ (program.termsUrl \in {Undefined, Null, ""} \/ values.termsAgreement = TRUE)

\* A click on the enabled submit button: handleSubmit runs.
SubmitAttempt == Submit /\ ~ButtonLoading

EffectsOf(log, i) ==
    LET OfCall(e) == e.call = i IN SelectSeq(log, OfCall)

SuccessKinds == {"setIsOpen", "mutate", "toast.success", "onSuccess"}

KindsOf(log) == {log[k].kind : k \in DOMAIN log}

Succeeded == {i \in DOMAIN calls : calls[i].status = "succeeded"}
Failed == {i \in DOMAIN calls : calls[i].status = "failed"}

\* C1: a submit attempt that passes validation while the program or the
\* partner's email is missing makes no call, leaves the open flag, fires no
\* notification, invalidates nothing and sets no root error.
C1_BlockedSubmitIsNoOp ==
    [][ (SubmitAttempt /\ FieldsPass /\ ~HasProgramAndEmail)
          => /\ calls' = calls
             /\ isOpen' = isOpen
             /\ effects' = effects
             /\ errors'.root = Undefined ]_vars

C1_Witness ==
    /\ lastAttempt = "noop"
    /\ ~HasProgramAndEmail
    /\ FieldsPass
    /\ calls = << >>
    /\ isOpen

\* C2: the step in which a call succeeds closes the panel, invalidates the
\* entry of the program's slug, shows the success notification and calls
\* onSuccess (when given), once each and in this order; no later step adds to
\* them, and a call that failed or is under way has none of the four, nor has
\* any effect been made without a call.
C2_SuccessEffects ==
    [][ /\ \A k \in DOMAIN effects' : effects'[k].call \in DOMAIN calls'
        /\ \A i \in DOMAIN calls' :
             LET mine == EffectsOf(effects', i)
                 justNow == /\ calls'[i].status = "succeeded"
                            /\ i \in DOMAIN calls
                            /\ calls[i].status = "inflight"
             IN IF justNow
                  THEN /\ isOpen' = FALSE
                       /\ mine = << [kind |-> "setIsOpen", call |-> i, arg |-> "false"],
                                    [kind |-> "mutate", call |-> i, arg |-> program.slug],
                                    [kind |-> "toast.success", call |-> i,
                                     arg |-> "Application submitted!"] >>
                                 \o (IF hasOnSuccess
                                       THEN << [kind |-> "onSuccess", call |-> i,
                                                arg |-> Undefined] >>
                                       ELSE << >>)
                  ELSE IF calls'[i].status = "succeeded"
                  THEN mine = EffectsOf(effects, i)
                  ELSE KindsOf(mine) \cap SuccessKinds = {} ]_vars

C2_Witness ==
    /\ Succeeded # {}
    /\ Failed # {}
    /\ ~isOpen
    /\ hasOnSuccess
    /\ \E k \in DOMAIN effects :
          effects[k].kind = "onSuccess" /\ effects[k].call \in Succeeded

\* C3: the step in which a call fails leaves the open flag as it was, and
\* the root error and the error notification carry the same message: the
\* server's when it gave one, the fallback otherwise.
C3_FailureMessage ==
    [][ \A i \in DOMAIN calls :
          (calls[i].status = "inflight" /\ calls'[i].status = "failed")
            => LET message == IF calls'[i].serverError # Undefined
                                THEN calls'[i].serverError
                                ELSE "Failed to submit application"
               IN /\ isOpen' = isOpen
                  /\ errors'.root = message
                  /\ EffectsOf(effects', i) =
                        << [kind |-> "setError", call |-> i, arg |-> message],
                           [kind |-> "toast.error", call |-> i, arg |-> message] >> ]_vars

C3_Witness ==
    /\ isOpen
    /\ \E i \in Failed : calls[i].serverError = ServerMessage
    /\ errors.root = ServerMessage
    /\ \E k \in DOMAIN effects :
          effects[k].kind = "toast.error" /\ effects[k].arg = ServerMessage

\* C4: a submit attempt with an empty proposal is stopped by validation:
\* onSubmit is not run, no call is made and the proposal field has an error;
\* an attempt is never stopped over the comments, empty or not.
C4_EmptyProposalBlocks ==
    [][ /\ (SubmitAttempt /\ values.proposal = "")
          => /\ lastAttempt' = "invalid"
             /\ calls' = calls
             /\ errors'.proposal
        /\ (SubmitAttempt /\ FieldsPass)
          => /\ lastAttempt' \in {"noop", "called"}
             /\ ~errors'.comments ]_vars

C4_Witness ==
    /\ lastAttempt = "invalid"
    /\ values.proposal = ""
    /\ errors.proposal
    /\ ~errors.termsAgreement
    /\ calls = << >>

\* C5: with a proposal, validation stops a submit attempt exactly when the
\* program has a termsUrl and the checkbox is unchecked, and then no call is
\* made; without a termsUrl the attempt goes on to onSubmit whatever
\* termsAgreement is, and to the call when the partner's email is there.
C5_TermsBlockIffRendered ==
    [][ (SubmitAttempt /\ values.proposal # "")
          => /\ (lastAttempt' = "invalid")
                  <=> (program.termsUrl \notin {Undefined, Null, ""}
                         /\ values.termsAgreement = FALSE)
             /\ (lastAttempt' = "invalid") => calls' = calls
             /\ (program.termsUrl = Undefined /\ HasProgramAndEmail)
                  => /\ Len(calls') = Len(calls) + 1
                     /\ calls'[Len(calls')].payload.termsAgreement = values.termsAgreement
        ]_vars

C5_Witness ==
    /\ lastAttempt = "called"
    /\ program.termsUrl = Undefined
    /\ values.termsAgreement = TRUE
    /\ Len(calls) = 1
    /\ calls[1].status = "inflight"
    /\ calls[1].payload.programId = program.id
    /\ calls[1].payload.termsAgreement = TRUE

\* C6: at most one call of the action is under way at any time.
C6_AtMostOneInFlight == Cardinality(InFlight) <= 1

C6_Witness ==
    /\ lastAttempt = "disabled"
    /\ Cardinality(InFlight) = 1
    /\ isOpen

\* C7: the submit button is loading while a call is under way, and in
\* every state after a call has succeeded.
C7_LoadingWhileInFlightAndAfterSuccess ==
    /\ InFlight # {} => ButtonLoading
    /\ Succeeded # {} => ButtonLoading

\* C8: after a failed call the submit button is enabled again, so that the
\* user can submit once more; and a call is only ever started by a submit.
C8_RetryAfterFailure ==
    [][ /\ (/\ Len(calls') = Len(calls)
            /\ Len(calls) > 0
            /\ calls[Len(calls)].status = "inflight"
            /\ calls'[Len(calls)].status = "failed")
          => ~ButtonLoading'
        /\ Len(calls') > Len(calls) => Submit ]_vars

\* C9: a submit attempt that passes validation with the program and the
\* partner's email there makes exactly one call, whose payload is the form
\* data with the partner's email, name and website (absent when the profile
\* has none) and the program's id.
C9_OneCallWithMergedPayload ==
    [][ (SubmitAttempt /\ FieldsPass /\ HasProgramAndEmail)
          => /\ Len(calls') = Len(calls) + 1
             /\ SubSeq(calls', 1, Len(calls)) = calls
             /\ calls'[Len(calls')].status = "inflight"
             /\ calls'[Len(calls')].payload =
                   [proposal |-> values.proposal,
                    comments |-> values.comments,
                    termsAgreement |-> values.termsAgreement,
                    email |-> partner.email,
                    name |-> partner.name,
                    website |-> IF partner.website = Null
                                  THEN Undefined ELSE partner.website,
                    programId |-> program.id] ]_vars

C9_Witness ==
    /\ lastAttempt = "called"
    /\ InFlight = {1}
    /\ partner.website = Null
    /\ calls[1].payload.website = Undefined
    /\ calls[1].payload.email = "a@b.com"
    /\ calls[1].payload.comments = "See my site"

\* C10: whenever the submit button is loading, a call is under way or a
\* call has succeeded.
C10_LoadingOnlyForACall ==
    ButtonLoading => (InFlight # {} \/ Succeeded # {})

====
